---- MODULE Spec2Model ----
\* A model of the stacked denoising auto-encoder coordinator, class SdA of
\* src/TL/SdA.py: the parameter lists it keeps, the secondary head it swaps,
\* and the update / evaluation procedures it builds and the caller then runs.
\*
\* Theano shared variables are modelled as cells of the store `shared`
\* (a sequence: cell k holds the value of the k-th shared variable created);
\* a parameter is the index of its cell, so that two lists naming the same
\* index alias the same buffer.  A value is an integer standing for the
\* tensor held.  A symbolic expression is a record of the cells it reads,
\* the width of its result and whether the shapes along it agree.
EXTENDS Integers, Sequences, FiniteSets, TLC

\* ---------------------------------------------------------------- bounds
MaxLayers == 2       \* hidden_layers_sizes has at most this many entries
MaxWidth == 2        \* widths and class counts range over 1..MaxWidth
MaxSwaps == 2        \* change_lastlayer calls in one run
MaxSteps == 2        \* update steps (pretraining or fine-tuning) in one run
MaxData == 8         \* a dataset holds 0..MaxData examples
MaxBatch == 4        \* batch sizes range over 1..MaxBatch

\* Python's None, as an argument value that is no integer width.
None == 0 - 1

Widths == 1 .. MaxWidth
\* The values numpy_rng draws for an initial weight.
Seeds == {1}
\* The learning rates and minibatch indexes the caller passes.
LearningRates == {1, 2}
Indexes == {0, 1}

VARIABLES
    ctor,             \* the arguments __init__ was called with
    status,           \* "ok": the object exists; "raise": __init__ raised
    n_layers,         \* self.n_layers
    sigmoid_layers,   \* self.sigmoid_layers
    dA_layers,        \* self.dA_layers
    logLayer,         \* self.logLayer
    logLayer_b,       \* self.logLayer_b
    params,           \* self.params
    params_b,         \* self.params_b
    finetune_cost,    \* self.finetune_cost
    finetune_cost_b,  \* self.finetune_cost_b
    shared,           \* the values of the shared variables
    train_fn,         \* the caller's train_fn of build_finetune_functions
    train_fn_b,       \* the caller's train_fn of build_finetune_functions_reuse
    pretrain_fns,     \* the caller's list from pretraining_functions
    test_fn,          \* the caller's test_score / valid_score closure
    last,             \* the last call made and what it returned or raised
    nswaps,           \* change_lastlayer calls so far
    nsteps            \* update steps so far

self_vars == <<ctor, status, n_layers, sigmoid_layers, dA_layers, logLayer,
               logLayer_b, params, params_b, finetune_cost, finetune_cost_b>>
fn_vars == <<train_fn, train_fn_b, pretrain_fns, test_fn>>
vars == <<self_vars, shared, fn_vars, last, nswaps, nsteps>>

\* ------------------------------------------------------- Python helpers
Min(a, b) == IF a < b THEN a ELSE b

\* s[-1]
Back(s) == s[Len(s)]

\* list.pop(): the list without its last element
Pop(s) == SubSeq(s, 1, Len(s) - 1)

\* s[lo:hi] for 0 <= lo <= hi, clipped at the end of s as Python clips
Slice(s, lo, hi) == SubSeq(s, lo + 1, Min(hi, Len(s)))

\* list(itertools.chain(*lists))
RECURSIVE Chain(_)
Chain(lists) ==
    IF lists = <<>> THEN <<>> ELSE Head(lists) \o Chain(Tail(lists))

RECURSIVE SumOver(_, _)
SumOver(S, v) ==
    IF S = {} THEN 0
    ELSE LET k == CHOOSE k \in S : TRUE IN v[k] + SumOver(S \ {k}, v)

\* ------------------------------------------------- the building blocks
\* self.x = T.matrix('x'): reads no shared variable; the datasets the
\* caller supplies have n_ins features.
X(n_ins) == [reads |-> {}, width |-> n_ins, shape_ok |-> TRUE]

\* s(input . W + b) or softmax(input . W + b): reads W and b besides what
\* input reads; the product is defined iff input's width is W's row count.
Affine(input, n_in, n_out, W, b) ==
    [reads |-> input.reads \cup {W, b}, width |-> n_out,
     shape_ok |-> input.shape_ok /\ input.width = n_in]

\* mlp.HiddenLayer(rng, input, n_in, n_out, activation): W and b are the
\* cells it allocates.
HiddenLayer(input, n_in, n_out, W, b) ==
    [n_in |-> n_in, n_out |-> n_out, W |-> W, b |-> b, params |-> <<W, b>>,
     output |-> Affine(input, n_in, n_out, W, b)]

\* dA.dA(input, n_visible, n_hidden, W, bhid): shares W and bhid with the
\* layer and allocates its own visible bias b_prime.
dA(input, n_visible, n_hidden, W, bhid, b_prime) ==
    [n_visible |-> n_visible, n_hidden |-> n_hidden,
     W |-> W, b |-> bhid, b_prime |-> b_prime,
     params |-> <<W, bhid, b_prime>>,
     cost |-> [reads |-> input.reads \cup {W, bhid, b_prime},
               width |-> n_visible,
               shape_ok |-> input.shape_ok /\ input.width = n_visible]]

\* logistic_sgd.LogisticRegression(input, n_in, n_out): W and b are the
\* cells it allocates; p_y_given_x, y_pred, negative_log_likelihood(y) and
\* errors(y) all read what p_y_given_x reads.
LogisticRegression(input, n_in, n_out, W, b) ==
    [n_in |-> n_in, n_out |-> n_out, W |-> W, b |-> b, params |-> <<W, b>>,
     p_y_given_x |-> Affine(input, n_in, n_out, W, b)]

\* LogisticRegression allocates numpy.zeros((n_in, n_out)): it raises when a
\* dimension is None.
LogisticRegressionRaises(n_in, n_out) == n_in = None \/ n_out = None

negative_log_likelihood(layer) == layer.p_y_given_x

\* ------------------------------------------------------------ __init__
\* What one iteration of the loop records in self: the layer, its two
\* parameters in both parameter lists, and the paired dA.  The cells of W,
\* b and b_prime are allocated with a draw of numpy_rng, zeros and zeros.
\* AddLayer with a slip: only W reaches self.params.
AddLayerWeightOnly(self, sigmoid_layer, dA_layer, numpy_rng) ==
    [self EXCEPT
        !.sigmoid_layers = Append(@, sigmoid_layer),
        !.params = @ \o <<sigmoid_layer.W>>,
        !.params_b = @ \o sigmoid_layer.params,
        !.dA_layers = Append(@, dA_layer),
        !.shared = @ \o <<numpy_rng, 0, 0>>]

AddLayer(self, sigmoid_layer, dA_layer, numpy_rng) ==
    [self EXCEPT
        !.sigmoid_layers = Append(@, sigmoid_layer),
        !.params = @ \o sigmoid_layer.params,
        !.params_b = @ \o sigmoid_layer.params,
        !.dA_layers = Append(@, dA_layer),
        !.shared = @ \o <<numpy_rng, 0, 0>>]

\* The body of `for i in xrange(self.n_layers)`, from iteration i on
\* (i counts from 1 here); self holds the fields built so far.
RECURSIVE LayerLoop(_, _, _, _, _)
LayerLoop(i, self, n_ins, hidden_layers_sizes, numpy_rng) ==
    IF i > Len(hidden_layers_sizes) THEN self
    ELSE
      LET input_size == IF i = 1 THEN n_ins ELSE hidden_layers_sizes[i - 1]
          layer_input == IF i = 1 THEN X(n_ins)
                         ELSE Back(self.sigmoid_layers).output
          W == Len(self.shared) + 1
          b == W + 1
          b_prime == W + 2
          sigmoid_layer == HiddenLayer(layer_input, input_size,
                                       hidden_layers_sizes[i], W, b)
          dA_layer == dA(layer_input, input_size, hidden_layers_sizes[i],
                         sigmoid_layer.W, sigmoid_layer.b, b_prime)
      IN LayerLoop(i + 1,
                   AddLayer(self, sigmoid_layer, dA_layer, numpy_rng),
                   n_ins, hidden_layers_sizes, numpy_rng)

Empty ==
    [status |-> "raise", n_layers |-> 0, sigmoid_layers |-> <<>>,
     dA_layers |-> <<>>, logLayer |-> <<>>, logLayer_b |-> <<>>,
     params |-> <<>>, params_b |-> <<>>, finetune_cost |-> <<>>,
     finetune_cost_b |-> <<>>, shared |-> <<>>]

\* SdA.__init__: the fields of the object it leaves, status "raise" (and no
\* object) when it raises.
SdAInit(numpy_rng, n_ins, hidden_layers_sizes, n_outs, n_outs_b) ==
    LET n == Len(hidden_layers_sizes)
        s1 == LayerLoop(1, Empty, n_ins, hidden_layers_sizes, numpy_rng)
        top == Back(s1.sigmoid_layers).output
        W == Len(s1.shared) + 1
        head == LogisticRegression(top, Back(hidden_layers_sizes), n_outs,
                                   W, W + 1)
        head_b == LogisticRegression(top, Back(hidden_layers_sizes),
                                     n_outs_b, W + 2, W + 3)
    IN  IF ~(n > 0) THEN Empty
        ELSE IF LogisticRegressionRaises(Back(hidden_layers_sizes), n_outs)
                \/ LogisticRegressionRaises(Back(hidden_layers_sizes), n_outs_b)
        THEN Empty
        ELSE [s1 EXCEPT
                !.status = "ok",
                !.n_layers = n,
                !.logLayer = head,
                !.params = @ \o head.params,
                !.finetune_cost = negative_log_likelihood(head),
                !.logLayer_b = head_b,
                !.params_b = @ \o head_b.params,
                !.finetune_cost_b = negative_log_likelihood(head_b),
                !.shared = @ \o <<0, 0, 0, 0>>]

\* The closures the caller holds: none built yet.
NoFn == [built |-> FALSE]
NoCall == [op |-> "__init__"]

\* hidden_layers_sizes: every list of at most MaxLayers widths
HiddenSizes == UNION {[1 .. n -> Widths] : n \in 0 .. MaxLayers}

\* The scenario of the specification's section 8.
Scenario ==
    [numpy_rng |-> 1, n_ins |-> 10, hidden_layers_sizes |-> <<5, 3>>,
     n_outs |-> 2, n_outs_b |-> 4]

CtorArgs ==
    [numpy_rng : Seeds, n_ins : Widths, hidden_layers_sizes : HiddenSizes,
     n_outs : Widths, n_outs_b : Widths \cup {None}] \cup {Scenario}

Init ==
    \E a \in CtorArgs :
      LET self == SdAInit(a.numpy_rng, a.n_ins, a.hidden_layers_sizes,
                          a.n_outs, a.n_outs_b)
      IN  /\ ctor = a
          /\ status = self.status
          /\ n_layers = self.n_layers
          /\ sigmoid_layers = self.sigmoid_layers
          /\ dA_layers = self.dA_layers
          /\ logLayer = self.logLayer
          /\ logLayer_b = self.logLayer_b
          /\ params = self.params
          /\ params_b = self.params_b
          /\ finetune_cost = self.finetune_cost
          /\ finetune_cost_b = self.finetune_cost_b
          /\ shared = self.shared
          /\ train_fn = NoFn
          /\ train_fn_b = NoFn
          /\ pretrain_fns = <<>>
          /\ test_fn = NoFn
          /\ last = NoCall
          /\ nswaps = 0
          /\ nsteps = 0

\* ---------------------------------------------------- change_lastlayer
\* The two pops and the extend of change_lastlayer.
\* ReplaceTail with a slip: a single pop.
ReplaceTailOnePop(list, head_params) == Pop(list) \o head_params

\* ReplaceTail with a slip: the two pops take the front of the list.
ReplaceTailPopFront(list, head_params) ==
    SubSeq(list, 3, Len(list)) \o head_params

ReplaceTail(list, head_params) == Pop(Pop(list)) \o head_params

\* change_lastlayer with a slip: the new head takes over the shared
\* variables of the head it replaces, set back to zeros.
change_lastlayer_in_place(n_ins, n_outs) ==
    /\ status = "ok"
    /\ nswaps < MaxSwaps
    /\ nswaps' = nswaps + 1
    /\ IF LogisticRegressionRaises(n_ins, n_outs)
       THEN /\ last' = [op |-> "change_lastlayer", result |-> "raise"]
            /\ UNCHANGED <<self_vars, shared>>
       ELSE LET head_b == LogisticRegression(Back(sigmoid_layers).output,
                                             n_ins, n_outs,
                                             logLayer_b.W, logLayer_b.b)
            IN  /\ logLayer_b' = head_b
                /\ params_b' = ReplaceTail(params_b, head_b.params)
                /\ finetune_cost_b' = negative_log_likelihood(head_b)
                /\ shared' = [shared EXCEPT ![logLayer_b.W] = 0,
                                            ![logLayer_b.b] = 0]
                /\ last' = [op |-> "change_lastlayer", result |-> "ok"]
                /\ UNCHANGED <<ctor, status, n_layers, sigmoid_layers,
                               dA_layers, logLayer, params, finetune_cost>>
    /\ UNCHANGED <<fn_vars, nsteps>>

\* SdA.change_lastlayer(n_ins, n_outs)
change_lastlayer(n_ins, n_outs) ==
    /\ status = "ok"
    /\ nswaps < MaxSwaps
    /\ nswaps' = nswaps + 1
    /\ IF LogisticRegressionRaises(n_ins, n_outs)
       THEN /\ last' = [op |-> "change_lastlayer", result |-> "raise"]
            /\ UNCHANGED <<self_vars, shared>>
       ELSE LET W == Len(shared) + 1
                head_b == LogisticRegression(Back(sigmoid_layers).output,
                                             n_ins, n_outs, W, W + 1)
            IN  /\ logLayer_b' = head_b
                /\ params_b' = ReplaceTail(params_b, head_b.params)
                /\ finetune_cost_b' = negative_log_likelihood(head_b)
                /\ shared' = shared \o <<0, 0>>
                /\ last' = [op |-> "change_lastlayer", result |-> "ok"]
                /\ UNCHANGED <<ctor, status, n_layers, sigmoid_layers,
                               dA_layers, logLayer, params, finetune_cost>>
    /\ UNCHANGED <<fn_vars, nsteps>>

ChangeLastLayer ==
    \E n_ins \in Widths, n_outs \in Widths \cup {None} :
        change_lastlayer(n_ins, n_outs)

\* ------------------------------------------- gradients and functions
\* T.grad(cost, wrt): one symbolic gradient per entry of wrt, in wrt's order.
Grad(cost, wrt) == [k \in 1 .. Len(wrt) |-> [cost |-> cost, wrt |-> wrt[k]]]

\* The value of a gradient on the minibatch `batch`, given the values v of
\* the shared variables: it depends on every variable the cost reads, and
\* is zero for a variable the cost does not read.
GradValue(gparam, v, batch) ==
    IF gparam.wrt \in gparam.cost.reads
    THEN ((SumOver(gparam.cost.reads, v) + gparam.wrt + batch) % 3) - 1
    ELSE 0

\* The two right-hand sides the update lists hold: `param`, and
\* `param - gparam * learning_rate` (rate None: the rate is an input of
\* the compiled function).
Same(param) == [op |-> "param", param |-> param, gparam |-> <<>>, rate |-> 0]
Descent(param, gparam, rate) ==
    [op |-> "sgd", param |-> param, gparam |-> gparam, rate |-> rate]

ExprOk(e) == e.op = "param" \/ e.gparam.cost.shape_ok

ExprValue(e, v, batch, lr) ==
    IF e.op = "param" THEN v[e.param]
    ELSE v[e.param]
         - GradValue(e.gparam, v, batch) * (IF e.rate = None THEN lr ELSE e.rate)

\* theano.function(inputs, outputs, updates, givens): the compiled function.
\* The function keeps, beside what Theano compiles, the arguments of the
\* build_* call that made it (args).
Function(outputs, updates, args) ==
    [built |-> TRUE, outputs |-> outputs, updates |-> updates, args |-> args]

\* A call of a compiled function raises when a product along one of its
\* expressions has mismatched shapes; nothing is then assigned.
CallOk(fn) ==
    /\ fn.outputs.shape_ok
    /\ \A k \in 1 .. Len(fn.updates) : ExprOk(fn.updates[k][2])

\* CallStore with a slip: the updates are applied one after another, each
\* right-hand side evaluated on the values its predecessors left.
RECURSIVE ApplyInOrder(_, _, _, _, _)
ApplyInOrder(k, fn, v, batch, lr) ==
    IF k > Len(fn.updates) THEN v
    ELSE ApplyInOrder(k + 1, fn,
                      [v EXCEPT ![fn.updates[k][1]] =
                          ExprValue(fn.updates[k][2], v, batch, lr)],
                      batch, lr)

CallStoreInOrder(fn, v, batch, lr) == ApplyInOrder(1, fn, v, batch, lr)

\* The store after a call that does not raise: every right-hand side is
\* evaluated on the values before the call, then all are assigned.
CallStore(fn, v, batch, lr) ==
    [c \in 1 .. Len(v) |->
        IF \E k \in 1 .. Len(fn.updates) : fn.updates[k][1] = c
        THEN LET k == CHOOSE k \in 1 .. Len(fn.updates) : fn.updates[k][1] = c
             IN  ExprValue(fn.updates[k][2], v, batch, lr)
        ELSE v[c]]

\* ------------------------------------------------------- the datasets
\* A dataset of N examples: example k (from 0) has the features k, which
\* stand for its row of the matrix, and the label Label(k).
Label(k) == (k * k) % 5
DataSet(N) == [x |-> [k \in 1 .. N |-> k - 1], y |-> [k \in 1 .. N |-> Label(k - 1)]]

\* logLayer.y_pred and logLayer.p_y_given_x on the example x
PredValue(expr, v, x) == (x + SumOver(expr.reads, v)) % expr.width
ProbValue(expr, v, x) == <<x, SumOver(expr.reads, v)>>

\* The closure test_score / valid_score with what it captured: the head's
\* output, the two halves of the dataset, the batch count and the batch size.
Scorer(layer, set_x, set_y, n_batches, batch_size) ==
    [built |-> TRUE, p_y_given_x |-> layer.p_y_given_x,
     set_x |-> set_x, set_y |-> set_y,
     n_batches |-> n_batches, batch_size |-> batch_size]

\* ------------------------------------------- build_finetune_functions
\* FinetuneUpdates with a slip: the zip runs over self.params_b.
FinetuneUpdatesSecondaryList(param_list, gparams, learning_rate) ==
    [k \in 1 .. Min(Len(params_b), Len(gparams)) |->
        <<params_b[k], Descent(params_b[k], gparams[k], learning_rate)>>]

\* `for param, gparam in zip(self.params, gparams)`
FinetuneUpdates(param_list, gparams, learning_rate) ==
    [k \in 1 .. Min(Len(param_list), Len(gparams)) |->
        <<param_list[k], Descent(param_list[k], gparams[k], learning_rate)>>]

\* SdA.build_finetune_functions(datasets, batch_size, learning_rate);
\* datasets[1] is the validation set.
build_finetune_functions(valid_set, batch_size, learning_rate) ==
    /\ status = "ok"
    /\ LET n_valid_batches == Len(valid_set.x) \div batch_size
           gparams == Grad(finetune_cost, params)
           updates == FinetuneUpdates(params, gparams, learning_rate)
       IN  /\ train_fn' = Function(finetune_cost, updates,
                                   [param_list |-> params,
                                    learning_rate |-> learning_rate])
           /\ test_fn' = Scorer(logLayer, valid_set.x, valid_set.y,
                                n_valid_batches, batch_size)
    /\ last' = [op |-> "build_finetune_functions", result |-> "ok"]
    /\ UNCHANGED <<self_vars, shared, train_fn_b, pretrain_fns, nswaps, nsteps>>

\* -------------------------------------- build_finetune_functions_reuse
\* MaskedEntry with a slip: the bias branch of update == 0 descends.
MaskedEntryBiasAlways(param, gparam, update, layer_num, learning_rate) ==
    IF update = 0
    THEN IF layer_num % 2 = 0
         THEN <<(<<param, Same(param)>>)>>
         ELSE <<(<<param, Descent(param, gparam, learning_rate)>>)>>
    ELSE IF update = 1
    THEN <<(<<param, Descent(param, gparam, learning_rate)>>)>>
    ELSE <<>>

\* The entry, if any, one iteration of the zip loop appends to updates.
MaskedEntry(param, gparam, update, layer_num, learning_rate) ==
    IF update = 0
    THEN IF layer_num % 2 = 0
         THEN <<(<<param, Same(param)>>)>>
         ELSE <<(<<param, Same(param)>>)>>
    ELSE IF update = 1
    THEN IF layer_num % 2 = 0
         THEN <<(<<param, Descent(param, gparam, learning_rate)>>)>>
         ELSE <<(<<param, Descent(param, gparam, learning_rate)>>)>>
    ELSE <<>>

\* MaskedUpdates with a slip: total_n_layers counts the layers only, so
\* the zip stops before the head's two parameters.
MaskedUpdatesHiddenOnly(param_list, gparams, update_layerwise, total_n_layers, learning_rate) ==
    LET m == Min(Min(Len(param_list), Len(gparams)),
                 Min(Len(update_layerwise), Len(total_n_layers) - 2))
    IN  Chain([k \in 1 .. m |->
                 MaskedEntry(param_list[k], gparams[k], update_layerwise[k],
                             total_n_layers[k], learning_rate)])

\* `for param, gparam, update, layer_num in zip(self.params_b, gparams,
\* update_layerwise, total_n_layers)`: zip stops at the shortest list.
MaskedUpdates(param_list, gparams, update_layerwise, total_n_layers, learning_rate) ==
    LET m == Min(Min(Len(param_list), Len(gparams)),
                 Min(Len(update_layerwise), Len(total_n_layers)))
    IN  Chain([k \in 1 .. m |->
                 MaskedEntry(param_list[k], gparams[k], update_layerwise[k],
                             total_n_layers[k], learning_rate)])

\* range(n)
Range(n) == [k \in 1 .. n |-> k - 1]

\* SdA.build_finetune_functions_reuse(datasets, batch_size, learning_rate,
\* update_layerwise)
build_finetune_functions_reuse(valid_set, batch_size, learning_rate, update_layerwise) ==
    /\ status = "ok"
    /\ LET n_valid_batches == Len(valid_set.x) \div batch_size
           gparams == Grad(finetune_cost_b, params_b)
           total_n_layers == Range((n_layers + 1) * 2)
           updates == MaskedUpdates(params_b, gparams, update_layerwise,
                                    total_n_layers, learning_rate)
       IN  /\ train_fn_b' = Function(finetune_cost_b, updates,
                                     [param_list |-> params_b,
                                      learning_rate |-> learning_rate,
                                      update_layerwise |-> update_layerwise])
           /\ test_fn' = Scorer(logLayer_b, valid_set.x, valid_set.y,
                                n_valid_batches, batch_size)
    /\ last' = [op |-> "build_finetune_functions_reuse", result |-> "ok"]
    /\ UNCHANGED <<self_vars, shared, train_fn, pretrain_fns, nswaps, nsteps>>

\* ------------------------------------------------ calls of the train_fn
\* One call fn(index) of a compiled update function, named op in `last`.
CallFunction(op, fn, index, lr) ==
    /\ nsteps < MaxSteps
    /\ nsteps' = nsteps + 1
    /\ IF CallOk(fn)
       THEN /\ shared' = CallStore(fn, shared, index, lr)
            /\ last' = [op |-> op, result |-> "ok", index |-> index,
                        lr |-> lr, args |-> fn.args]
       ELSE /\ shared' = shared
            /\ last' = [op |-> op, result |-> "raise", index |-> index,
                        lr |-> lr, args |-> fn.args]
    /\ UNCHANGED <<self_vars, fn_vars, nswaps>>

\* train_fn(index), train_fn from build_finetune_functions
TrainStep(index) ==
    /\ train_fn.built
    /\ CallFunction("train_fn", train_fn, index, None)

\* train_fn(index), train_fn from build_finetune_functions_reuse
TrainStepB(index) ==
    /\ train_fn_b.built
    /\ CallFunction("train_fn_b", train_fn_b, index, None)

\* ------------------------------------------------ pretraining_functions
\* dA.get_cost_updates(corruption_level, learning_rate, tau): the cost of
\* the dA and one gradient-descent update for each of its own parameters,
\* at the symbolic learning rate.
get_cost_updates(dA_layer) ==
    [cost |-> dA_layer.cost,
     updates |-> FinetuneUpdates(dA_layer.params,
                                 Grad(dA_layer.cost, dA_layer.params), None)]

\* PretrainFns with a slip: every function is compiled from the last dA.
PretrainFnsLastBound(layers) ==
    [k \in 1 .. Len(layers) |->
        LET cu == get_cost_updates(Back(layers))
        IN  Function(cu.cost, cu.updates, [layer |-> k - 1])]

\* `for dA in self.dA_layers`: one compiled function per dA, in order.
PretrainFns(layers) ==
    [k \in 1 .. Len(layers) |->
        LET cu == get_cost_updates(layers[k])
        IN  Function(cu.cost, cu.updates, [layer |-> k - 1])]

\* SdA.pretraining_functions(train_set_x, batch_size, tau)
pretraining_functions ==
    /\ status = "ok"
    /\ pretrain_fns' = PretrainFns(dA_layers)
    /\ last' = [op |-> "pretraining_functions", result |-> "ok"]
    /\ UNCHANGED <<self_vars, shared, train_fn, train_fn_b, test_fn, nswaps,
                   nsteps>>

\* pretrain_fns[i](index, corruption, lr), i from 0; the corrupted
\* minibatch is the batch the gradient is taken on.
PretrainStep(i, index, lr) ==
    /\ i < Len(pretrain_fns)
    /\ CallFunction("pretrain_fn", pretrain_fns[i + 1], index, lr)

\* ------------------------------------------------ build_test_function
\* SdA.build_test_function(dataset, batch_size)
build_test_function(dataset, batch_size) ==
    /\ status = "ok"
    /\ LET n_test_batches == Len(dataset.x) \div batch_size
       IN  test_fn' = Scorer(logLayer, dataset.x, dataset.y, n_test_batches,
                             batch_size)
    /\ last' = [op |-> "build_test_function", result |-> "ok"]
    /\ UNCHANGED <<self_vars, shared, train_fn, train_fn_b, pretrain_fns,
                   nswaps, nsteps>>

\* SdA.build_test_function_reuse(dataset, batch_size)
build_test_function_reuse(dataset, batch_size) ==
    /\ status = "ok"
    /\ LET n_test_batches == Len(dataset.x) \div batch_size
       IN  test_fn' = Scorer(logLayer_b, dataset.x, dataset.y, n_test_batches,
                             batch_size)
    /\ last' = [op |-> "build_test_function_reuse", result |-> "ok"]
    /\ UNCHANGED <<self_vars, shared, train_fn, train_fn_b, pretrain_fns,
                   nswaps, nsteps>>

\* -------------------------------------------- test_score / valid_score
\* Batch with a slip: the index is not scaled by the batch size.
BatchUnscaled(set, index, batch_size) ==
    Slice(set, index, index + batch_size)

\* set_[index * batch_size : (index + 1) * batch_size]
Batch(set, index, batch_size) ==
    Slice(set, index * batch_size, (index + 1) * batch_size)

\* The batches `for i in xrange(n_batches)` visits, in order.
Batches(set, n_batches, batch_size) ==
    [i \in 1 .. n_batches |-> Batch(set, i - 1, batch_size)]

\* The triple test_score() / valid_score() returns: per batch the
\* predictions, the probabilities and the labels, each list chained.
Score(fn, v) ==
    LET xs == Batches(fn.set_x, fn.n_batches, fn.batch_size)
        ys == Batches(fn.set_y, fn.n_batches, fn.batch_size)
        preds == [i \in 1 .. Len(xs) |->
                    [k \in 1 .. Len(xs[i]) |->
                        PredValue(fn.p_y_given_x, v, xs[i][k])]]
        probs == [i \in 1 .. Len(xs) |->
                    [k \in 1 .. Len(xs[i]) |->
                        ProbValue(fn.p_y_given_x, v, xs[i][k])]]
        y_test_fnt == ys
    IN  [y_test |-> Chain(y_test_fnt), y_pred |-> Chain(preds),
         y_pred_prob |-> Chain(probs)]

\* test_score() or valid_score(): the first prediction_i(0) raises when the
\* head's product has mismatched shapes; with no batch nothing is computed.
Evaluate ==
    /\ test_fn.built
    /\ IF test_fn.n_batches > 0 /\ ~test_fn.p_y_given_x.shape_ok
       THEN last' = [op |-> "test_score", result |-> "raise"]
       ELSE last' = [op |-> "test_score", result |-> "ok",
                     returned |-> Score(test_fn, shared)]
    /\ UNCHANGED <<self_vars, shared, fn_vars, nswaps, nsteps>>

\* ------------------------------------------------- parameter-list claims
\* C1: after construction and after any number of change_lastlayer calls,
\* with any arguments, params_b has exactly 2 * n_layers + 2 entries.
C1_SecondaryLength ==
    status = "ok" => Len(params_b) = 2 * n_layers + 2

\* Two heads have been swapped in, one after the other.
C1_Witness ==
    /\ status = "ok"
    /\ nswaps = 2
    /\ last = [op |-> "change_lastlayer", result |-> "ok"]
    /\ Len(shared) = 3 * n_layers + 8

\* C2: right after construction with n hidden layers params has 2n + 2
\* entries, and so has params_b when a secondary class count was given;
\* input width 10, hidden widths [5, 3], 2 and 4 classes give 6 and 6.
C2_LengthsAfterInit ==
    (last.op = "__init__" /\ Len(ctor.hidden_layers_sizes) > 0)
    => /\ ctor.n_outs_b # None
          => /\ status = "ok"
             /\ Len(params) = 2 * Len(ctor.hidden_layers_sizes) + 2
             /\ Len(params_b) = 2 * Len(ctor.hidden_layers_sizes) + 2
       /\ status = "ok" => Len(params) = 2 * Len(ctor.hidden_layers_sizes) + 2
       /\ ctor = Scenario => Len(params) = 6 /\ Len(params_b) = 6

C2_Witness ==
    /\ ctor = Scenario
    /\ last.op = "__init__"
    /\ status = "ok"
    /\ Len(params) = 6

\* Every constructed stack has a secondary head, whose W and b end params_b:
\* __init__ builds logLayer_b whether or not a class count was given.
HasSecondaryHead ==
    status = "ok"
    => /\ logLayer_b.n_out # None
       /\ SubSeq(params_b, Len(params_b) - 1, Len(params_b)) = logLayer_b.params

\* C3: in every constructed stack each layer's output width is the next
\* layer's input width, the first layer's input width is n_ins, and both
\* heads' input width is the last layer's output width.
C3_WidthsChain ==
    status = "ok"
    => /\ \A i \in 1 .. n_layers - 1 :
            sigmoid_layers[i].n_out = sigmoid_layers[i + 1].n_in
       /\ sigmoid_layers[1].n_in = ctor.n_ins
       /\ logLayer.n_in = Back(sigmoid_layers).n_out
       /\ logLayer_b.n_in = Back(sigmoid_layers).n_out

NextHead == ChangeLastLayer
SpecHead == Init /\ [][NextHead]_vars

\* ------------------------------------------------------- fine-tuning runs
\* The update masks tried on a parameter list of length L: every 0/1 mask
\* of that length, and masks one shorter and one longer.
Masks(L) ==
    [1 .. L -> {0, 1}]
    \cup {[k \in 1 .. L - 1 |-> 1], [k \in 1 .. L - 1 |-> 0],
          [k \in 1 .. L + 1 |-> 1]}

\* The stacks trained: one unit per layer, one class per head.
UnitCtor ==
    {a \in CtorArgs :
        /\ a.numpy_rng = 1 /\ a.n_ins = 1 /\ a.n_outs = 1 /\ a.n_outs_b = 1
        /\ \A k \in 1 .. Len(a.hidden_layers_sizes) :
              a.hidden_layers_sizes[k] = 1}

InitUnit == Init /\ ctor \in UnitCtor

\* The secondary head is replaced at most once in a run.
SwapOnce == nswaps = 0 /\ ChangeLastLayer

\* The caller builds the masked training procedure once and iterates it.
BuildFinetuneReuse ==
    /\ ~train_fn_b.built
    /\ \E learning_rate \in LearningRates,
          update_layerwise \in Masks(Len(params_b)) :
          build_finetune_functions_reuse(DataSet(2), 1, learning_rate,
                                         update_layerwise)

TrainB == \E index \in Indexes : TrainStepB(index)

NextTrain ==
    \/ SwapOnce
    \/ BuildFinetuneReuse
    \/ TrainB
SpecTrain == InitUnit /\ [][NextTrain]_vars

\* The value cell c held when it was allocated.
InitialValue(c) ==
    LET s0 == SdAInit(ctor.numpy_rng, ctor.n_ins, ctor.hidden_layers_sizes,
                      ctor.n_outs, ctor.n_outs_b).shared
    IN  IF c <= Len(s0) THEN s0[c] ELSE 0

\* The step just taken is a call of the masked train_fn that returned.
MaskedStepTaken ==
    /\ nsteps' = nsteps + 1
    /\ last'.op = "train_fn_b"
    /\ last'.result = "ok"

\* fn was built with a 0/1 mask as long as the secondary parameter list.
MaskFits(fn) ==
    /\ Len(fn.args.update_layerwise) = Len(fn.args.param_list)
    /\ \A p \in 1 .. Len(fn.args.update_layerwise) :
          fn.args.update_layerwise[p] \in {0, 1}

\* C4: one call of the masked train_fn that returns leaves the secondary
\* parameter at position p as it was where the mask is 0 and sets it to
\* param - learning_rate * grad where the mask is 1, at every position of
\* the parameter list the function was built from and for every 0/1 mask
\* of that length; with an all-zero mask nothing in the list changes.
C4_MaskedStep ==
    [][MaskedStepTaken /\ MaskFits(train_fn_b)
       => \A p \in 1 .. Len(train_fn_b.args.param_list) :
            LET c == train_fn_b.args.param_list[p]
                g == [cost |-> train_fn_b.outputs, wrt |-> c]
            IN  /\ train_fn_b.args.update_layerwise[p] = 0
                   => shared'[c] = shared[c]
                /\ train_fn_b.args.update_layerwise[p] = 1
                   => shared'[c] = shared[c]
                        - train_fn_b.args.learning_rate
                          * GradValue(g, shared, last'.index)]_vars

\* A step under a mask with zeros and ones has moved a parameter.
C4_Witness ==
    /\ last.op = "train_fn_b"
    /\ last.result = "ok"
    /\ MaskFits(train_fn_b)
    /\ \E p, q \in 1 .. Len(train_fn_b.args.param_list) :
          /\ train_fn_b.args.update_layerwise[p] = 0
          /\ train_fn_b.args.update_layerwise[q] = 1
          /\ shared[train_fn_b.args.param_list[q]]
               # InitialValue(train_fn_b.args.param_list[q])

AllOnes(mask) == \A p \in 1 .. Len(mask) : mask[p] = 1

\* C5: with an all-one mask a call of the masked train_fn leaves exactly
\* the values a call of the unmasked update rule (every parameter becomes
\* param - learning_rate * grad), built for the same parameter list, cost
\* and learning rate and run on the same minibatch, would leave.
C5_AllOnesIsUnmasked ==
    [][MaskedStepTaken /\ MaskFits(train_fn_b)
          /\ AllOnes(train_fn_b.args.update_layerwise)
       => LET list == train_fn_b.args.param_list
              rate == train_fn_b.args.learning_rate
              plain == Function(train_fn_b.outputs,
                                FinetuneUpdates(list,
                                    Grad(train_fn_b.outputs, list), rate),
                                train_fn_b.args)
          IN  shared' = CallStore(plain, shared, last'.index, None)]_vars

\* An all-one step has moved a parameter.
C5_Witness ==
    /\ last.op = "train_fn_b"
    /\ last.result = "ok"
    /\ MaskFits(train_fn_b)
    /\ AllOnes(train_fn_b.args.update_layerwise)
    /\ \E c \in 1 .. Len(shared) : shared[c] # InitialValue(c)

\* C6: building the masked step with a mask whose length is not that of
\* the secondary parameter list fails: no training procedure results.
C6_MaskLengthChecked ==
    train_fn_b.built
    => Len(train_fn_b.args.update_layerwise) = Len(train_fn_b.args.param_list)

\* ------------------------------------------------------ pretraining runs
PretrainingFunctions == pretraining_functions

Pretrain ==
    \E i \in 0 .. MaxLayers - 1, index \in Indexes, lr \in LearningRates :
        PretrainStep(i, index, lr)

NextPretrain ==
    \/ SwapOnce
    \/ PretrainingFunctions
    \/ Pretrain
SpecPretrain == InitUnit /\ [][NextPretrain]_vars

\* The cells of the stack's parameters: both parameter lists.
StackCells ==
    {params[k] : k \in 1 .. Len(params)}
    \cup {params_b[k] : k \in 1 .. Len(params_b)}

\* C8: one call of the pretraining function built for layer i changes,
\* among the stack's parameters, only W_i and b_i: the other layers' W and
\* b and both heads' parameters are the same before and after the call.
C8_PretrainFrame ==
    [][(nsteps' = nsteps + 1 /\ last'.op = "pretrain_fn")
       => LET layer == sigmoid_layers[last'.args.layer + 1]
          IN  \A c \in StackCells :
                c \notin {layer.W, layer.b} => shared'[c] = shared[c]]_vars

\* The second layer's pretraining function has moved that layer's W or b.
C8_Witness ==
    /\ last.op = "pretrain_fn"
    /\ last.result = "ok"
    /\ last.args.layer = 1
    /\ \E c \in {sigmoid_layers[2].W, sigmoid_layers[2].b} :
          shared[c] # InitialValue(c)

\* ------------------------------------------------------- evaluation runs
\* The stacks evaluated: one unit per layer, any class counts.
EvalCtor ==
    {a \in CtorArgs :
        /\ a.numpy_rng = 1 /\ a.n_ins = 1
        /\ \A k \in 1 .. Len(a.hidden_layers_sizes) :
              a.hidden_layers_sizes[k] = 1}

InitEval == Init /\ ctor \in EvalCtor

DataSets == {DataSet(N) : N \in 0 .. MaxData}
BatchSizes == 1 .. MaxBatch

\* The caller builds one scoring procedure, and with build_finetune_functions
\* one training procedure, and then calls them.
BuildTestFunction ==
    /\ ~test_fn.built
    /\ \E dataset \in DataSets, batch_size \in BatchSizes :
          build_test_function(dataset, batch_size)

BuildTestFunctionReuse ==
    /\ ~test_fn.built
    /\ \E dataset \in DataSets, batch_size \in BatchSizes :
          build_test_function_reuse(dataset, batch_size)

BuildFinetune ==
    /\ ~test_fn.built
    /\ ~train_fn.built
    /\ \E dataset \in DataSets, batch_size \in BatchSizes :
          build_finetune_functions(dataset, batch_size, 1)

Train == \E index \in Indexes : TrainStep(index)

NextEval ==
    \/ SwapOnce
    \/ BuildTestFunction
    \/ BuildTestFunctionReuse
    \/ BuildFinetune
    \/ Train
    \/ Evaluate
SpecEval == InitEval /\ [][NextEval]_vars

\* C9: test_score / valid_score returns three sequences of the same
\* length n_batches * batch_size, batch after batch in ascending order:
\* position k holds example k's label, predicted label and class
\* probabilities; 2 batches of size 4 give length 8.
C9_ScoreInDatasetOrder ==
    (last.op = "test_score" /\ last.result = "ok")
    => LET r == last.returned
           n == test_fn.n_batches * test_fn.batch_size
       IN  /\ Len(r.y_test) = n
           /\ Len(r.y_pred) = n
           /\ Len(r.y_pred_prob) = n
           /\ n <= Len(test_fn.set_x)
           /\ \A k \in 1 .. n :
                /\ r.y_test[k] = test_fn.set_y[k]
                /\ r.y_pred[k]
                     = PredValue(test_fn.p_y_given_x, shared, test_fn.set_x[k])
                /\ r.y_pred_prob[k]
                     = ProbValue(test_fn.p_y_given_x, shared, test_fn.set_x[k])
           /\ (test_fn.n_batches = 2 /\ test_fn.batch_size = 4)
              => Len(r.y_test) = 8

\* Eight examples in two batches of four have been scored.
C9_Witness ==
    /\ last.op = "test_score"
    /\ last.result = "ok"
    /\ test_fn.n_batches = 2
    /\ test_fn.batch_size = 4
    /\ Len(last.returned.y_pred) = 8

\* C10: with a batch size that does not divide the dataset size no result
\* sequences are returned: whatever test_score returns covers the dataset.
C10_NonDividingBatchIsFatal ==
    (last.op = "test_score" /\ last.result = "ok")
    => Len(test_fn.set_x) % test_fn.batch_size = 0

\* ------------------------------------------- runs that train both heads
\* The caller builds the primary training procedure once and iterates it.
BuildFinetuneRate ==
    /\ ~train_fn.built
    /\ \E learning_rate \in LearningRates :
          build_finetune_functions(DataSet(2), 1, learning_rate)

NextFinetune ==
    \/ BuildFinetuneRate
    \/ BuildFinetuneReuse
    \/ Train
    \/ TrainB
SpecFinetune == InitUnit /\ [][NextFinetune]_vars

\* The step just taken is a call of the primary train_fn that returned.
PrimaryStepTaken ==
    /\ nsteps' = nsteps + 1
    /\ last'.op = "train_fn"
    /\ last'.result = "ok"

\* C11: one call of the unmasked train_fn sets every parameter of the
\* primary parameter list to param - learning_rate * grad, every gradient
\* taken on the values held before the call: no new value depends on
\* another parameter's new value.
C11_AtomicDescent ==
    [][PrimaryStepTaken
       => /\ train_fn.args.param_list = params
          /\ \A p \in 1 .. Len(params) :
                LET c == params[p]
                    g == [cost |-> finetune_cost, wrt |-> c]
                IN  shared'[c] = shared[c]
                        - train_fn.args.learning_rate
                          * GradValue(g, shared, last'.index)]_vars

\* Two primary steps have been taken and at least two parameters moved.
C11_Witness ==
    /\ last.op = "train_fn"
    /\ last.result = "ok"
    /\ nsteps = 2
    /\ \E p, q \in 1 .. Len(params) :
          /\ p # q
          /\ shared[params[p]] # InitialValue(params[p])
          /\ shared[params[q]] # InitialValue(params[q])

\* ------------------------------------------- order of the parameter lists
\* The object as __init__ left it.
Constructed ==
    SdAInit(ctor.numpy_rng, ctor.n_ins, ctor.hidden_layers_sizes,
            ctor.n_outs, ctor.n_outs_b)

\* C12: after any number of change_lastlayer calls the first 2 * n_layers
\* entries of params_b are the entries __init__ put there, in the order
\* W, b of layer 0, W, b of layer 1, and so on; the last two entries are W
\* and b of the head logLayer_b names now, and are no hidden layer's
\* parameter; params is the list __init__ left.
C12_StableOrder ==
    status = "ok"
    => /\ Len(params_b) = 2 * n_layers + 2
       /\ SubSeq(params_b, 1, 2 * n_layers)
             = SubSeq(Constructed.params_b, 1, 2 * n_layers)
       /\ \A i \in 1 .. n_layers :
             /\ params_b[2 * i - 1] = sigmoid_layers[i].W
             /\ params_b[2 * i] = sigmoid_layers[i].b
       /\ params_b[2 * n_layers + 1] = logLayer_b.W
       /\ params_b[2 * n_layers + 2] = logLayer_b.b
       /\ \A k \in 1 .. 2 * n_layers :
             params_b[k] \notin {logLayer_b.W, logLayer_b.b}
       /\ params = Constructed.params

\* A stack of two layers whose secondary head has been replaced twice: the
\* head in place is neither the constructed one nor the first replacement.
C12_Witness ==
    /\ status = "ok"
    /\ n_layers = 2
    /\ nswaps = 2
    /\ last = [op |-> "change_lastlayer", result |-> "ok"]
    /\ logLayer_b.W = Constructed.logLayer_b.b + 3
    /\ Back(params_b) = logLayer_b.b

\* ------------------------------------------------------- the two heads
SecondaryStepTaken ==
    /\ nsteps' = nsteps + 1
    /\ last'.op = "train_fn_b"
    /\ last'.result = "ok"

\* The cells a step has changed.
Changed == {c \in 1 .. Len(shared) : shared'[c] # shared[c]}

\* C13: a call of train_fn_b that returns, whatever its mask, leaves W and
\* b of logLayer as they were, and a call of train_fn that returns leaves
\* W and b of logLayer_b as they were; the first 2 * n_layers entries of
\* params and params_b are the same shared variables, which both
\* finetune_cost and finetune_cost_b read, so the value either step leaves
\* in one of them is the value the other head's expressions are computed
\* from.
C13_HeadIsolation ==
    [][/\ SecondaryStepTaken
          => Changed \cap {logLayer.W, logLayer.b} = {}
       /\ PrimaryStepTaken
          => Changed \cap {logLayer_b.W, logLayer_b.b} = {}
       /\ (PrimaryStepTaken \/ SecondaryStepTaken)
          => /\ SubSeq(params, 1, 2 * n_layers)
                   = SubSeq(params_b, 1, 2 * n_layers)
             /\ \A k \in 1 .. 2 * n_layers :
                   /\ params[k] \in finetune_cost.reads
                   /\ params[k] \in finetune_cost_b.reads
             /\ PrimaryStepTaken
                => Changed \subseteq (finetune_cost.reads
                                      \ {logLayer_b.W, logLayer_b.b})
             /\ SecondaryStepTaken
                => Changed \subseteq (finetune_cost_b.reads
                                      \ {logLayer.W, logLayer.b})]_vars

\* A primary step has moved the primary head and a hidden-layer parameter,
\* and the secondary step after it has moved the secondary head: the
\* secondary step started from the hidden-layer value the primary step left.
C13_Witness ==
    /\ last.op = "train_fn_b" /\ last.result = "ok" /\ nsteps = 2
    /\ train_fn.built
    /\ shared[logLayer.W] # InitialValue(logLayer.W)
    /\ shared[logLayer_b.W] # InitialValue(logLayer_b.W)
    /\ \E k \in 1 .. 2 * n_layers :
          /\ params_b[k] = params[k]
          /\ shared[params[k]] # InitialValue(params[k])

\* ------------------------------- closures built before change_lastlayer
\* The caller builds the secondary scoring procedure over the same data.
BuildTestReuse ==
    /\ ~test_fn.built
    /\ build_test_function_reuse(DataSet(2), 1)

NextStale ==
    \/ SwapOnce
    \/ BuildFinetuneReuse
    \/ BuildTestReuse
    \/ TrainB
    \/ Evaluate
SpecStale == InitUnit /\ [][NextStale]_vars

\* The shared variables of the secondary head in place.
HeadCells == {logLayer_b.W, logLayer_b.b}

\* The shared variables a compiled training function assigns.
Targets(fn) == {fn.updates[k][1] : k \in 1 .. Len(fn.updates)}

\* train_fn_b, respectively test_fn, exists and was built on another head
\* than the one in place.
StaleTrain == train_fn_b.built /\ HeadCells \cap train_fn_b.outputs.reads = {}
StaleTest == test_fn.built /\ HeadCells \cap test_fn.p_y_given_x.reads = {}

SwapTaken ==
    /\ nswaps' = nswaps + 1
    /\ last'.op = "change_lastlayer"
    /\ last'.result = "ok"

ScoreTaken == last'.op = "test_score" /\ last'.result = "ok"

\* The store with other values in the cells of the head in place.
OtherHeadValues(v) ==
    [c \in 1 .. Len(v) |-> IF c \in HeadCells THEN v[c] + 1 ELSE v[c]]

\* C14: a change_lastlayer call that returns leaves train_fn_b and test_fn
\* as they were built, and neither reads or assigns a shared variable of
\* the new head; a later call of that train_fn_b leaves W and b of the new
\* head as they were, assigns what it would assign with any other values
\* in them, and moves every hidden-layer parameter whose mask entry is 1
\* down the gradient of the cost it was built with; a later
\* call of that test_fn returns what it would return with any other values
\* in W and b of the new head.
C14_StaleClosures ==
    [][/\ SwapTaken
          => /\ train_fn_b' = train_fn_b /\ test_fn' = test_fn
             /\ train_fn_b.built
                => /\ StaleTrain'
                   /\ HeadCells' \cap Targets(train_fn_b) = {}
             /\ test_fn.built => StaleTest'
       /\ (SecondaryStepTaken /\ StaleTrain)
          => /\ Changed \cap HeadCells = {}
             /\ \A c \in (1 .. Len(shared)) \ HeadCells :
                   shared'[c] = CallStore(train_fn_b, OtherHeadValues(shared),
                                          last'.index, last'.lr)[c]
             /\ \A k \in 1 .. 2 * n_layers :
                   (/\ k <= Len(train_fn_b.args.update_layerwise)
                    /\ train_fn_b.args.update_layerwise[k] = 1)
                   => shared'[params_b[k]]
                        = shared[params_b[k]]
                          - train_fn_b.args.learning_rate
                            * GradValue([cost |-> train_fn_b.outputs,
                                         wrt |-> params_b[k]],
                                        shared, last'.index)
       /\ (ScoreTaken /\ StaleTest)
          => /\ shared' = shared
             /\ last'.returned = Score(test_fn, OtherHeadValues(shared))]_vars

\* The head was replaced after train_fn_b was built, and train_fn_b was
\* then called: a hidden-layer parameter and the replaced head have moved,
\* the head in place has not.
C14_Witness ==
    /\ nswaps = 1
    /\ last.op = "train_fn_b" /\ last.result = "ok"
    /\ StaleTrain
    /\ nsteps = 1
    /\ \A c \in HeadCells : shared[c] = 0
    /\ shared[Back(train_fn_b.args.param_list)] # 0
    /\ \E k \in 1 .. 2 * n_layers :
          /\ train_fn_b.args.update_layerwise[k] = 1
          /\ shared[params_b[k]] # InitialValue(params_b[k])

====
